---- MODULE Spec2Model ----
(***************************************************************************)
(* A model of classtools (src/src/classtools/classtools.py):               *)
(*   immutable_property  - the lazily materialized, per-instance slot      *)
(*   variantmethod       - a slot producing a _Variant dispatcher over a   *)
(*                         class-level virtual table                       *)
(*   Signal              - a slot producing an _Emitter                    *)
(*   declare             - a forward declared method                       *)
(* Python objects that have identity (dicts, dispatchers, declarations)    *)
(* live in heaps that are sequences; a reference is an index of the heap.  *)
(***************************************************************************)
EXTENDS Integers, Sequences, FiniteSets, TLC

VARIABLES
    storage,     \* obj.__dict__ of every instance: attribute name -> reference
    ret,         \* the outcome of the last operation (what the caller saw)
    nalloc,      \* number of objects the plain slot's factory has created
    fcalls,      \* per instance: invocations of the plain slot's factory
    dicts,       \* heap of dict objects (virtual tables)
    vm,          \* the variantmethod descriptor: its virtual_table reference
    variants,    \* the live _Variant objects: reference -> object
    nvar,        \* number of _Variant objects created so far
    lastset,     \* history: per _Variant object, the key of its latest set()
    decls,       \* the declare objects: reference -> object
    cdict,       \* __dict__ of every class: attribute name -> declare reference
    sig,         \* the Signal descriptor: its lists _cb_m and _cb_f
    emitters,    \* the live _Emitter objects: reference -> object
    nemit,       \* number of _Emitter objects created so far
    names,       \* __name__ of a descriptor object of each kind that class
                 \* bodies are still being given
    threads      \* per thread: where it is in immutable_property.__get__

vars == <<storage, ret, nalloc, fcalls, dicts, vm, variants, nvar, lastset, decls, cdict,
          sig, emitters, nemit, names, threads>>

-----------------------------------------------------------------------------
(* Bounds *)

\* objects a slot factory may create in one behaviour
MaxAlloc == 2

\* number of instances of the class
NumInstances == 2

\* callbacks the class-level lists of a Signal hold together
MaxBind == 2

\* callbacks the list of one _Emitter holds
MaxList == 3

\* number of classes in the inheritance chain Example, Example2(Example), ...
NumClasses == 3

\* number of threads that read the plain slot
NumThreads == 2

Instances == 1..NumInstances
Threads == 1..NumThreads

-----------------------------------------------------------------------------
(* Python values and small helpers *)

None == "None"

\* d[k] = v on a dict
DictSet(d, k, v) == [x \in (DOMAIN d) \cup {k} |-> IF x = k THEN v ELSE d[x]]

\* del d[k] on a dict
DictDel(d, k) == [x \in (DOMAIN d) \ {k} |-> d[x]]

EmptyDict == [x \in {} |-> None]

\* what an operation that has not happened yet looks like
NoRet == [op |-> "init", obj |-> 0, ref |-> 0, key |-> None, args |-> <<>>,
          value |-> None, self |-> 0, raised |-> None, called |-> FALSE,
          owner |-> 0, result |-> None, cbs |-> <<>>]

-----------------------------------------------------------------------------
(* immutable_property *)

\* the attribute names the descriptors of the class are bound to
PropName == "prop"
VariantName == "calculate"

\* __get__ with obj not None: return the stored value, or run the default
\* factory (whose result is newval), store its result and return it.
immutable_property__get__(stor, name, obj, newval) ==
    IF name \in DOMAIN stor[obj]
    THEN [storage |-> stor, value |-> stor[obj][name], called |-> FALSE]
    ELSE [storage |-> [stor EXCEPT ![obj] = DictSet(@, name, newval)],
          value |-> newval, called |-> TRUE]

\* __set__: always raises, stores nothing
immutable_property__set__Stores(stor, name, obj, value) ==
    [storage |-> [stor EXCEPT ![obj] = DictSet(@, name, value)], raised |-> None]

immutable_property__set__(stor, name, obj, value) ==
    [storage |-> stor, raised |-> "TypeError"]

\* __delete__: remove the entry when there is one
immutable_property__delete__Keeps(stor, name, obj) == stor

immutable_property__delete__(stor, name, obj) ==
    IF name \in DOMAIN stor[obj]
    THEN [stor EXCEPT ![obj] = DictDel(@, name)]
    ELSE stor


-----------------------------------------------------------------------------
(* A plain immutable_property named PropName whose factory builds a new    *)
(* object on every invocation (as `lambda self: []` does)                  *)

\* obj.prop
PropGet(obj) ==
    /\ PropName \in DOMAIN storage[obj] \/ nalloc < MaxAlloc
    /\ LET r == immutable_property__get__(storage, PropName, obj, nalloc + 1)
       IN /\ storage' = r.storage
          /\ nalloc' = IF r.called THEN nalloc + 1 ELSE nalloc
          /\ fcalls' = IF r.called THEN [fcalls EXCEPT ![obj] = @ + 1] ELSE fcalls
          /\ ret' = [NoRet EXCEPT !.op = "get", !.obj = obj, !.value = r.value,
                                  !.called = r.called]
    /\ UNCHANGED <<dicts, vm, variants, nvar, lastset, decls, cdict, sig, emitters, nemit,
                   names, threads>>

\* obj.prop = value
PropSet(obj, value) ==
    /\ LET r == immutable_property__set__(storage, PropName, obj, value)
       IN /\ storage' = r.storage
          /\ ret' = [NoRet EXCEPT !.op = "setattr", !.obj = obj, !.value = value,
                                  !.raised = r.raised]
    /\ UNCHANGED <<nalloc, fcalls, dicts, vm, variants, nvar, lastset, decls, cdict, sig, emitters, nemit,
                   names, threads>>

\* del obj.prop
PropDelete(obj) ==
    /\ storage' = immutable_property__delete__(storage, PropName, obj)
    /\ ret' = [NoRet EXCEPT !.op = "delete", !.obj = obj]
    /\ UNCHANGED <<nalloc, fcalls, dicts, vm, variants, nvar, lastset, decls, cdict, sig, emitters, nemit,
                   names, threads>>

-----------------------------------------------------------------------------
(* variantmethod and _Variant *)

\* dispatch keys; DefaultKey is the key given to variantmethod(key, func)
Keys == {"add", "sub", "mul"}
DefaultKey == "add"

\* the functions that get registered: plain functions of (self, x, y)
Funcs == {"f_add", "f_sub", "f_mul"}
DefaultFunc == "f_add"

\* the argument tuples the methods are called with
ArgTuples == {<<2, 3>>}

\* the registrations made with register(key)
Registrations == {<<"sub", "f_sub">>, <<"mul", "f_mul">>}

\* the body of a registered function
Apply(func, x, y) ==
    CASE func = "f_add" -> x + y
      [] func = "f_sub" -> x - y
      [] func = "f_mul" -> x * y

\* func.__get__(instance) of a plain function: a bound method
Bind(func, instance) == [func |-> func, self |-> instance]

\* calling a bound method: the function runs with self = the bound instance
InvokeBound(bm, args) == [value |-> Apply(bm.func, args[1], args[2]), self |-> bm.self]

\* _Variant.__init__
_Variant__init__(curr_key, obj, vt_ref) ==
    [_vt_ref |-> vt_ref, curr_key |-> curr_key, instance |-> obj]

\* the default factory of variantmethod.__init__:
\*   lambda obj: _Variant(key, obj, self.virtual_table)
variantmethodFactory(obj) ==
    _Variant__init__(DefaultKey, obj, vm.virtual_table)

\* variantmethod.register(key)(func): self.virtual_table[key] = func
registerRebinds(key, func) ==
    [dicts |-> Append(dicts, DictSet(dicts[vm.virtual_table], key, func)),
     vm |-> [vm EXCEPT !.virtual_table = Len(dicts) + 1]]

register(key, func) ==
    [dicts |-> [dicts EXCEPT ![vm.virtual_table] = DictSet(@, key, func)],
     vm |-> vm]

\* _Variant.__call__
_Variant__call__IgnoresKey(v, args) ==
    [raised |-> None, key |-> v.curr_key,
     out |-> InvokeBound(Bind(dicts[v._vt_ref][DefaultKey], v.instance), args)]

_Variant__call__(v, args) ==
    IF v.curr_key \notin DOMAIN dicts[v._vt_ref]
    THEN [raised |-> "AttributeError", key |-> v.curr_key,
          out |-> [value |-> None, self |-> 0]]
    ELSE [raised |-> None, key |-> v.curr_key,
          out |-> InvokeBound(Bind(dicts[v._vt_ref][v.curr_key], v.instance), args)]

\* _Variant.__getitem__
_Variant__getitem__UsesCurrent(v, val) ==
    IF v.curr_key \notin DOMAIN dicts[v._vt_ref]
    THEN [raised |-> "KeyError", value |-> None]
    ELSE [raised |-> None, value |-> Bind(dicts[v._vt_ref][v.curr_key], v.instance)]

_Variant__getitem__(v, val) ==
    IF val \notin DOMAIN dicts[v._vt_ref]
    THEN [raised |-> "KeyError", value |-> None]
    ELSE [raised |-> None, value |-> Bind(dicts[v._vt_ref][val], v.instance)]

\* _Variant.__contains__
_Variant__contains__(v, item) == item \in DOMAIN dicts[v._vt_ref]

\* _Variant.__len__
_Variant__len__(v) == Cardinality(DOMAIN dicts[v._vt_ref])

\* _Variant.mapping: a read-only proxy of the table object
_Variant_mapping(v) == [proxy_of |-> v._vt_ref]

\* _Variant.set on the dispatcher with reference ref
_Variant_setShared(heap, ref, val) ==
    [r \in DOMAIN heap |-> [heap[r] EXCEPT !.curr_key = val]]

_Variant_setChecked(heap, ref, val) ==
    IF val \in DOMAIN dicts[heap[ref]._vt_ref]
    THEN [heap EXCEPT ![ref].curr_key = val]
    ELSE heap

_Variant_set(heap, ref, val) == [heap EXCEPT ![ref].curr_key = val]

\* variantmethod.register(key)(func), at class level
Register(key, func) ==
    /\ LET r == register(key, func)
       IN /\ dicts' = r.dicts
          /\ vm' = r.vm
    /\ ret' = [NoRet EXCEPT !.op = "register", !.key = key, !.value = func,
                            !.called = (key \notin DOMAIN dicts[vm.virtual_table])]
    /\ UNCHANGED <<storage, nalloc, fcalls, variants, nvar, lastset, decls, cdict, sig, emitters, nemit,
                   names, threads>>

\* obj.calculate: immutable_property.__get__ with the variantmethod factory
VariantGet(obj) ==
    /\ VariantName \in DOMAIN storage[obj] \/ nvar < MaxAlloc
    /\ LET r == immutable_property__get__(storage, VariantName, obj, nvar + 1)
       IN /\ storage' = r.storage
          /\ variants' = IF r.called THEN DictSet(variants, nvar + 1, variantmethodFactory(obj))
                                     ELSE variants
          /\ nvar' = IF r.called THEN nvar + 1 ELSE nvar
          /\ lastset' = IF r.called THEN DictSet(lastset, nvar + 1, None) ELSE lastset
          /\ ret' = [NoRet EXCEPT !.op = "get", !.obj = obj, !.value = r.value,
                                  !.called = r.called]
    /\ UNCHANGED <<nalloc, fcalls, dicts, vm, decls, cdict, sig, emitters, nemit,
                   names, threads>>

\* obj.calculate = value: variantmethod.__set__ raises
variantmethod__set__(stor, obj, value) == [storage |-> stor, raised |-> "TypeError"]

VariantSetAttr(obj, value) ==
    /\ LET r == variantmethod__set__(storage, obj, value)
       IN /\ storage' = r.storage
          /\ ret' = [NoRet EXCEPT !.op = "setattr", !.obj = obj, !.value = value,
                                  !.raised = r.raised]
    /\ UNCHANGED <<nalloc, fcalls, dicts, vm, variants, nvar, lastset, decls, cdict, sig, emitters, nemit,
                   names, threads>>

\* del obj.calculate; nothing else references the dispatcher, which goes away
VariantDelete(obj) ==
    /\ storage' = immutable_property__delete__(storage, VariantName, obj)
    /\ variants' = IF VariantName \in DOMAIN storage[obj]
                   THEN DictDel(variants, storage[obj][VariantName])
                   ELSE variants
    /\ lastset' = IF VariantName \in DOMAIN storage[obj]
                  THEN DictDel(lastset, storage[obj][VariantName])
                  ELSE lastset
    /\ ret' = [NoRet EXCEPT !.op = "delete", !.obj = obj]
    /\ UNCHANGED <<nalloc, fcalls, dicts, vm, nvar, decls, cdict, sig, emitters, nemit,
                   names, threads>>

\* dispatcher(*args), for any dispatcher object a caller may hold
Call(ref, args) ==
    /\ LET r == _Variant__call__(variants[ref], args)
       IN ret' = [NoRet EXCEPT !.op = "call", !.ref = ref, !.key = r.key, !.args = args,
                               !.value = r.out.value, !.self = r.out.self,
                               !.raised = r.raised]
    /\ UNCHANGED <<storage, nalloc, fcalls, dicts, vm, variants, nvar, lastset, decls, cdict, sig, emitters, nemit,
                   names, threads>>

\* dispatcher.set(val)
Set(ref, val) ==
    /\ variants' = _Variant_set(variants, ref, val)
    /\ lastset' = [lastset EXCEPT ![ref] = val]
    /\ ret' = [NoRet EXCEPT !.op = "set", !.ref = ref, !.key = val]
    /\ UNCHANGED <<storage, nalloc, fcalls, dicts, vm, nvar, decls, cdict, sig, emitters, nemit,
                   names, threads>>

\* dispatcher[val]
GetItem(ref, val) ==
    /\ LET r == _Variant__getitem__(variants[ref], val)
       IN ret' = [NoRet EXCEPT !.op = "getitem", !.ref = ref, !.key = val,
                               !.value = r.value, !.raised = r.raised]
    /\ UNCHANGED <<storage, nalloc, fcalls, dicts, vm, variants, nvar, lastset, decls, cdict, sig, emitters, nemit,
                   names, threads>>

\* val in dispatcher
Contains(ref, val) ==
    /\ ret' = [NoRet EXCEPT !.op = "contains", !.ref = ref, !.key = val,
                            !.value = _Variant__contains__(variants[ref], val)]
    /\ UNCHANGED <<storage, nalloc, fcalls, dicts, vm, variants, nvar, lastset, decls, cdict, sig, emitters, nemit,
                   names, threads>>

\* len(dispatcher)
LenOf(ref) ==
    /\ ret' = [NoRet EXCEPT !.op = "len", !.ref = ref,
                            !.value = _Variant__len__(variants[ref])]
    /\ UNCHANGED <<storage, nalloc, fcalls, dicts, vm, variants, nvar, lastset, decls, cdict, sig, emitters, nemit,
                   names, threads>>

\* dispatcher.mapping()
Mapping(ref) ==
    /\ ret' = [NoRet EXCEPT !.op = "mapping", !.ref = ref,
                            !.value = _Variant_mapping(variants[ref])]
    /\ UNCHANGED <<storage, nalloc, fcalls, dicts, vm, variants, nvar, lastset, decls, cdict, sig, emitters, nemit,
                   names, threads>>

-----------------------------------------------------------------------------
(* declare *)

\* Class 1 is Example, whose body declares the method; class c + 1 is a
\* subclass of class c with an empty body.  Instance c is an instance of
\* class c.  Owner 0 is owner=None.
Classes == 1..NumClasses
NoOwner == 0
DeclName == "face_normal"

\* the objects given to impl: two plain functions, a callable object without
\* __get__ (like functools.partial), and an object that is neither callable
\* nor a descriptor
ImplFuncs == {"f", "g", "partial", "five"}
IsCallable(func) == func \in {"f", "g", "partial"}
HasGet(func) == func \in {"f", "g"}

\* what calling an implementation yields: each function its own result, and
\* the self it ran with (0 when it runs without an instance)
RunImpl(func, self) == [by |-> func, self |-> self]

\* declare.__init__
declare__init__(stub) == [__name__ |-> None, __stub__ |-> stub, __func__ |-> None]

\* attribute lookup of DeclName along the MRO of class c: the first class, from
\* c towards Example, whose __dict__ has the name
LookupOwnOrRoot(c) ==
    IF DeclName \in DOMAIN cdict[c] THEN cdict[c][DeclName] ELSE cdict[1][DeclName]

RECURSIVE Lookup(_)
Lookup(c) ==
    IF DeclName \in DOMAIN cdict[c] THEN cdict[c][DeclName] ELSE Lookup(c - 1)

\* declare.__get__ with an instance
declare__get__Unbound(self, instance, owner) ==
    IF self.__func__ = None
    THEN [raised |-> "NotImplementedError", value |-> None]
    ELSE [raised |-> None, value |-> [func |-> self.__func__, self |-> 0]]

declare__get__(self, instance, owner) ==
    IF self.__func__ = None
    THEN [raised |-> "NotImplementedError", value |-> None]
    ELSE IF HasGet(self.__func__)
         THEN [raised |-> None, value |-> Bind(self.__func__, instance)]
         ELSE [raised |-> None, value |-> [func |-> self.__func__, self |-> 0]]

\* the reference of the declare object that impl makes for class owner: a
\* class gets a declare object at most once, so the class number is unused
NewDecl(owner) == owner

\* declare.impl, called on the declare object with reference ref
declare_implInPlace(ref, func, owner) ==
    LET self == decls[ref]
    IN IF ~IsCallable(func) /\ ~HasGet(func)
       THEN [decls |-> decls, cdict |-> cdict, raised |-> "TypeError: expected a callable"]
       ELSE IF owner # NoOwner /\ self.__name__ \notin DOMAIN cdict[owner]
       THEN [decls |-> [decls EXCEPT ![ref].__func__ = func],
             cdict |-> [cdict EXCEPT ![owner] = DictSet(@, self.__name__, ref)],
             raised |-> None]
       ELSE IF self.__func__ = None
       THEN [decls |-> [decls EXCEPT ![ref].__func__ = func], cdict |-> cdict,
             raised |-> None]
       ELSE [decls |-> decls, cdict |-> cdict, raised |-> "TypeError: already implemented"]

declare_implOverwrites(ref, func, owner) ==
    LET self == decls[ref]
    IN IF ~IsCallable(func) /\ ~HasGet(func)
       THEN [decls |-> decls, cdict |-> cdict, raised |-> "TypeError: expected a callable"]
       ELSE IF owner # NoOwner /\ self.__name__ \notin DOMAIN cdict[owner]
       THEN [decls |-> DictSet(decls, NewDecl(owner),
                               [declare__init__(self.__stub__)
                                  EXCEPT !.__name__ = self.__name__, !.__func__ = func]),
             cdict |-> [cdict EXCEPT ![owner] = DictSet(@, self.__name__, NewDecl(owner))],
             raised |-> None]
       ELSE [decls |-> [decls EXCEPT ![ref].__func__ = func], cdict |-> cdict,
             raised |-> None]

declare_impl(ref, func, owner) ==
    LET self == decls[ref]
    IN IF ~IsCallable(func) /\ ~HasGet(func)
       THEN [decls |-> decls, cdict |-> cdict, raised |-> "TypeError: expected a callable"]
       ELSE IF owner # NoOwner /\ self.__name__ \notin DOMAIN cdict[owner]
       THEN IF self.__name__ = None
            THEN [decls |-> decls, cdict |-> cdict,
                  raised |-> "TypeError: only declarations inside a class"]
            ELSE \* new_ext = declare(stub); setattr(owner, name, new_ext)
                 [decls |-> DictSet(decls, NewDecl(owner),
                                    [declare__init__(self.__stub__)
                                       EXCEPT !.__name__ = self.__name__, !.__func__ = func]),
                  cdict |-> [cdict EXCEPT ![owner] = DictSet(@, self.__name__, NewDecl(owner))],
                  raised |-> None]
       ELSE IF self.__func__ = None
       THEN [decls |-> [decls EXCEPT ![ref].__func__ = func], cdict |-> cdict,
             raised |-> None]
       ELSE [decls |-> decls, cdict |-> cdict, raised |-> "TypeError: already implemented"]

\* declare.__set__
declare__set__(instance, value) == "TypeError: cannot assign to a method"

\* some_declaration.impl(func, owner), for any declare object a caller holds
Impl(ref, func, owner) ==
    /\ LET r == declare_impl(ref, func, owner)
       IN /\ decls' = r.decls
          /\ cdict' = r.cdict
          /\ ret' = [NoRet EXCEPT !.op = "impl", !.ref = ref, !.owner = owner,
                                  !.value = func, !.raised = r.raised]
    /\ UNCHANGED <<storage, nalloc, fcalls, dicts, vm, variants, nvar, lastset, sig, emitters, nemit,
                   names, threads>>

\* Class.face_normal(func), the decorator form: declare.__get__ with
\* instance None gives lambda f: self.impl(f, owner)
ClassImpl(c, func) ==
    /\ LET r == declare_impl(Lookup(c), func, c)
       IN /\ decls' = r.decls
          /\ cdict' = r.cdict
          /\ ret' = [NoRet EXCEPT !.op = "impl", !.ref = Lookup(c), !.owner = c,
                                  !.value = func, !.raised = r.raised]
    /\ UNCHANGED <<storage, nalloc, fcalls, dicts, vm, variants, nvar, lastset, sig, emitters, nemit,
                   names, threads>>

\* instance.face_normal(...) on the instance of class c: fetch, then call
Access(c) ==
    /\ LET r == declare__get__(decls[Lookup(c)], c, c)
       IN ret' = [NoRet EXCEPT !.op = "access", !.obj = c, !.ref = Lookup(c),
                               !.value = r.value, !.raised = r.raised,
                               !.result = IF r.raised = None
                                          THEN RunImpl(r.value.func, r.value.self)
                                          ELSE None]
    /\ UNCHANGED <<storage, nalloc, fcalls, dicts, vm, variants, nvar, lastset, decls, cdict, sig, emitters, nemit,
                   names, threads>>

\* instance.face_normal = value
DeclSetAttr(c, value) ==
    /\ ret' = [NoRet EXCEPT !.op = "setattr", !.obj = c, !.value = value,
                            !.raised = declare__set__(c, value)]
    /\ UNCHANGED <<storage, nalloc, fcalls, dicts, vm, variants, nvar, lastset, decls, cdict, sig, emitters, nemit,
                   names, threads>>

-----------------------------------------------------------------------------
(* Signal and _Emitter *)

SignalName == "changed"

\* The callables used as callbacks, by the parameters their def declares:
\*   "f0": def f0()    "f1": def f1(x)    "changed": def changed(self, val)
\* "five", the int 5: not callable and without __get__;
\* and "max", the builtin: callable, without __get__ and without a signature.
\* Two callbacks are closures over the emitter e they are connected to:
\*   "once":  def once(): e.disconnect(once)
\*   "adder": def adder(): e.connect(f0)
\* A list entry is [func, self]: self is the instance of a bound method, and
\* 0 for a callable that is used as it is.
Free(func) == [func |-> func, self |-> 0]

Declared(func) ==
    CASE func = "f0" -> 0
      [] func = "f1" -> 1
      [] func = "changed" -> 2
      [] func = "once" -> 0
      [] func = "adder" -> 0

\* hasattr(func, "__get__") and callable(func)
CbHasGet(func) == func \in {"f0", "f1", "changed", "once", "adder"}
CbCallable(func) == func \in {"f0", "f1", "changed", "max", "once", "adder"}

\* inspect.signature(cb): fails with TypeError for an object that is not
\* callable, and with ValueError for a builtin that has no signature and for
\* a bound method whose function declares no parameter for self
Introspect(cb) ==
    IF ~CbCallable(cb.func) THEN "TypeError"
    ELSE IF cb.func = "max" THEN "ValueError"
    ELSE IF cb.self # 0 /\ Declared(cb.func) = 0 THEN "ValueError"
    ELSE "ok"

\* len(inspect.signature(cb).parameters): a bound method does not count self
Params(cb) == Declared(cb.func) - (IF cb.self # 0 THEN 1 ELSE 0)

\* args[:1]
FirstOf(args) == IF Len(args) = 0 THEN <<>> ELSE <<args[1]>>

\* the arguments emit passes to a callback
PassedArgsAlways(cb, args) == FirstOf(args)

PassedArgs(cb, args) == IF Params(cb) > 0 THEN FirstOf(args) ELSE <<>>

\* cb(*value): every declared parameter is required
CallRaises(cb, value) == Len(value) # Params(cb)

\* list.remove(x): the list without the first occurrence of x
RECURSIVE ListRemove(_, _)
ListRemove(list, x) ==
    IF list = <<>> THEN <<>>
    ELSE IF Head(list) = x THEN Tail(list)
    ELSE <<Head(list)>> \o ListRemove(Tail(list), x)

\* func(*value) with matching arguments: what the body of the callback does
\* to the list of the emitter, which is the list emit is iterating
RunCallback(cb, list) ==
    CASE cb = Free("once") -> ListRemove(list, Free("once"))
      [] cb = Free("adder") -> Append(list, Free("f0"))
      [] OTHER -> list

\* the for loop of emit over self._cb_list, from position i: the iterator of
\* a Python list keeps an index into the list object itself and stops when
\* the index reaches the length the list has at that moment; log is the
\* sequence of calls made so far
RECURSIVE EmitLoop(_, _, _, _)
EmitLoop(list, i, args, log) ==
    IF i > Len(list)
    THEN [raised |-> None, log |-> log, list |-> list]
    ELSE IF Introspect(list[i]) = "TypeError"
    THEN EmitLoop(list, i + 1, args, log)
    ELSE IF Introspect(list[i]) = "ValueError"
    THEN [raised |-> "ValueError: no signature", log |-> log, list |-> list]
    ELSE LET value == PassedArgs(list[i], args)
             called == Append(log, [cb |-> list[i], args |-> value])
         IN IF CallRaises(list[i], value)
            THEN [raised |-> "TypeError: missing argument", log |-> called, list |-> list]
            ELSE EmitLoop(RunCallback(list[i], list), i + 1, args, called)

\* _Emitter.emit
_Emitter_emitChecksLast(em, args) ==
    LET r == EmitLoop(em._cb_list, 1, args, <<>>)
    IN IF r.raised = None /\ Len(args) > 1
       THEN [raised |-> "TypeError: too many arguments", log |-> r.log, list |-> r.list]
       ELSE r

_Emitter_emit(em, args) ==
    IF Len(args) > 1
    THEN [raised |-> "TypeError: too many arguments", log |-> <<>>, list |-> em._cb_list]
    ELSE EmitLoop(em._cb_list, 1, args, <<>>)

\* _Emitter.__init__
_Emitter__init__FreeFirst(obj, cb_m, cb_f) ==
    [obj |-> obj,
     _cb_list |-> [j \in 1..Len(cb_f) |-> Free(cb_f[j])]
                     \o [j \in 1..Len(cb_m) |-> Bind(cb_m[j], obj)]]

_Emitter__init__(obj, cb_m, cb_f) ==
    [obj |-> obj,
     _cb_list |-> [j \in 1..Len(cb_m) |-> Bind(cb_m[j], obj)]
                     \o [j \in 1..Len(cb_f) |-> Free(cb_f[j])]]

\* the default factory of Signal.__init__
SignalFactoryEmpty(obj) == _Emitter__init__(obj, <<>>, <<>>)

SignalFactory(obj) == _Emitter__init__(obj, sig._cb_m, sig._cb_f)

Occurs(list, x) == \E j \in 1..Len(list) : list[j] = x

\* Signal.bindm
Signal_bindm(func) ==
    IF ~CbHasGet(func)
    THEN [sig |-> sig, raised |-> "TypeError: not a descriptor"]
    ELSE [sig |-> [sig EXCEPT !._cb_m = Append(@, func)], raised |-> None]

\* Signal.unbindm
Signal_unbindm(func) ==
    IF ~Occurs(sig._cb_m, func)
    THEN [sig |-> sig, raised |-> "ValueError"]
    ELSE [sig |-> [sig EXCEPT !._cb_m = ListRemove(@, func)], raised |-> None]

\* Signal.bindf
Signal_bindf(func) ==
    IF ~CbCallable(func)
    THEN [sig |-> sig, raised |-> "TypeError: not callable"]
    ELSE [sig |-> [sig EXCEPT !._cb_f = Append(@, func)], raised |-> None]

\* Signal.unbindf
Signal_unbindf(func) ==
    IF ~Occurs(sig._cb_f, func)
    THEN [sig |-> sig, raised |-> "ValueError"]
    ELSE [sig |-> [sig EXCEPT !._cb_f = ListRemove(@, func)], raised |-> None]

\* _Emitter.connect
_Emitter_connect(em, target) == [em EXCEPT !._cb_list = Append(@, target)]

\* _Emitter.disconnect
_Emitter_disconnectAll(em, target) ==
    LET Other(cb) == cb # target
    IN [em EXCEPT !._cb_list = SelectSeq(@, Other)]

_Emitter_disconnect(em, target) == [em EXCEPT !._cb_list = ListRemove(@, target)]

\* Signal.__set__
Signal__set__(stor, obj, value) == [storage |-> stor, raised |-> "TypeError"]

ClassLevel(op, r, func) ==
    /\ sig' = r.sig
    /\ ret' = [NoRet EXCEPT !.op = op, !.value = func, !.raised = r.raised]
    /\ UNCHANGED <<storage, nalloc, fcalls, dicts, vm, variants, nvar, lastset, decls, cdict,
                   emitters, nemit,
                   names, threads>>

\* Class.changed.bindm(func)
Bindm(func) ==
    /\ Len(sig._cb_m) + Len(sig._cb_f) < MaxBind
    /\ ClassLevel("bindm", Signal_bindm(func), func)

\* Class.changed.unbindm(func)
Unbindm(func) == ClassLevel("unbindm", Signal_unbindm(func), func)

\* Class.changed.bindf(func)
BindfLive(func) ==
    /\ Len(sig._cb_m) + Len(sig._cb_f) < MaxBind
    /\ LET r == Signal_bindf(func)
       IN /\ sig' = r.sig
          /\ emitters' = IF r.raised = None
                         THEN [e \in DOMAIN emitters |-> _Emitter_connect(emitters[e], Free(func))]
                         ELSE emitters
          /\ ret' = [NoRet EXCEPT !.op = "bindf", !.value = func, !.raised = r.raised]
    /\ UNCHANGED <<storage, nalloc, fcalls, dicts, vm, variants, nvar, lastset, decls, cdict,
                   nemit, names, threads>>

Bindf(func) ==
    /\ Len(sig._cb_m) + Len(sig._cb_f) < MaxBind
    /\ ClassLevel("bindf", Signal_bindf(func), func)

\* Class.changed.unbindf(func)
Unbindf(func) == ClassLevel("unbindf", Signal_unbindf(func), func)

\* obj.changed: immutable_property.__get__ with the Signal factory
SignalGet(obj) ==
    /\ SignalName \in DOMAIN storage[obj] \/ nemit < MaxAlloc
    /\ LET r == immutable_property__get__(storage, SignalName, obj, nemit + 1)
       IN /\ storage' = r.storage
          /\ emitters' = IF r.called THEN DictSet(emitters, nemit + 1, SignalFactory(obj))
                                     ELSE emitters
          /\ nemit' = IF r.called THEN nemit + 1 ELSE nemit
          /\ ret' = [NoRet EXCEPT !.op = "get", !.obj = obj, !.value = r.value,
                                  !.called = r.called]
    /\ UNCHANGED <<nalloc, fcalls, dicts, vm, variants, nvar, lastset, decls, cdict, sig,
                   names, threads>>

\* obj.changed = value
SignalSetAttr(obj, value) ==
    /\ LET r == Signal__set__(storage, obj, value)
       IN /\ storage' = r.storage
          /\ ret' = [NoRet EXCEPT !.op = "setattr", !.obj = obj, !.value = value,
                                  !.raised = r.raised]
    /\ UNCHANGED <<nalloc, fcalls, dicts, vm, variants, nvar, lastset, decls, cdict,
                   sig, emitters, nemit,
                   names, threads>>

\* del obj.changed; nothing else references the emitter, which goes away
SignalDelete(obj) ==
    /\ storage' = immutable_property__delete__(storage, SignalName, obj)
    /\ emitters' = IF SignalName \in DOMAIN storage[obj]
                   THEN DictDel(emitters, storage[obj][SignalName])
                   ELSE emitters
    /\ ret' = [NoRet EXCEPT !.op = "delete", !.obj = obj]
    /\ UNCHANGED <<nalloc, fcalls, dicts, vm, variants, nvar, lastset, decls, cdict, sig, nemit,
                   names, threads>>

\* emitter.emit(*args)
Emit(ref, args) ==
    /\ LET r == _Emitter_emit(emitters[ref], args)
       IN /\ Len(r.list) <= MaxList
          /\ emitters' = [emitters EXCEPT ![ref]._cb_list = r.list]
          /\ ret' = [NoRet EXCEPT !.op = "emit", !.ref = ref, !.args = args,
                                  !.cbs = emitters[ref]._cb_list,
                                  !.value = r.log, !.raised = r.raised]
    /\ UNCHANGED <<storage, nalloc, fcalls, dicts, vm, variants, nvar, lastset, decls, cdict,
                   sig, nemit,
                   names, threads>>

\* emitter.connect(target)
ConnectAll(ref, target) ==
    /\ Len(emitters[ref]._cb_list) < MaxList
    /\ emitters' = [r \in DOMAIN emitters |-> _Emitter_connect(emitters[r], target)]
    /\ ret' = [NoRet EXCEPT !.op = "connect", !.ref = ref, !.value = target]
    /\ UNCHANGED <<storage, nalloc, fcalls, dicts, vm, variants, nvar, lastset, decls, cdict,
                   sig, nemit,
                   names, threads>>

Connect(ref, target) ==
    /\ Len(emitters[ref]._cb_list) < MaxList
    /\ emitters' = [emitters EXCEPT ![ref] = _Emitter_connect(@, target)]
    /\ ret' = [NoRet EXCEPT !.op = "connect", !.ref = ref, !.value = target]
    /\ UNCHANGED <<storage, nalloc, fcalls, dicts, vm, variants, nvar, lastset, decls, cdict,
                   sig, nemit,
                   names, threads>>

\* emitter.disconnect(target)
Disconnect(ref, target) ==
    /\ emitters' = [emitters EXCEPT ![ref] = _Emitter_disconnect(@, target)]
    /\ ret' = [NoRet EXCEPT !.op = "disconnect", !.ref = ref, !.value = target]
    /\ UNCHANGED <<storage, nalloc, fcalls, dicts, vm, variants, nvar, lastset, decls, cdict,
                   sig, nemit,
                   names, threads>>

\* the inputs of the signal operations
MethodFuncs == {"changed", "five"}
FreeFuncs == {"f0", "f1", "five"}
ConnectTargets == {Free("f0"), Free("f1"), Free("five")}
EmitArgs == {<<>>, <<"x">>, <<"x", "y">>}

-----------------------------------------------------------------------------
(* immutable_property.__get__ of the plain slot, run by several threads:   *)
(* another thread can run between the membership test, the read, the call  *)
(* of the factory and the store.  A thread makes one access.  The field     *)
(* raced records that the thread found no entry while another thread, on   *)
(* the same instance, had found none either and had not stored yet.        *)

\* a thread begins obj.prop
GetBegin(t, obj) ==
    /\ threads[t].pc = "idle"
    /\ threads' = [threads EXCEPT ![t].pc = "check", ![t].obj = obj]
    /\ UNCHANGED <<storage, ret, nalloc, fcalls, dicts, vm, variants, nvar, lastset, decls,
                   cdict, sig, emitters, nemit, names>>

\* if self.__name__ in storage
GetCheckSkipsTest(t) ==
    /\ threads[t].pc = "check"
    /\ LET obj == threads[t].obj
           present == PropName \in DOMAIN storage[obj]
           inflight == \E u \in Threads \ {t} :
                          threads[u].obj = obj /\ threads[u].pc \in {"factory", "store"}
       IN threads' = [threads EXCEPT ![t].pc = "factory",
                                     ![t].raced = ~present /\ inflight]
    /\ UNCHANGED <<storage, ret, nalloc, fcalls, dicts, vm, variants, nvar, lastset, decls,
                   cdict, sig, emitters, nemit, names>>

GetCheck(t) ==
    /\ threads[t].pc = "check"
    /\ LET obj == threads[t].obj
           present == PropName \in DOMAIN storage[obj]
           inflight == \E u \in Threads \ {t} :
                          threads[u].obj = obj /\ threads[u].pc \in {"factory", "store"}
       IN threads' = [threads EXCEPT ![t].pc = IF present THEN "read" ELSE "factory",
                                     ![t].raced = ~present /\ inflight]
    /\ UNCHANGED <<storage, ret, nalloc, fcalls, dicts, vm, variants, nvar, lastset, decls,
                   cdict, sig, emitters, nemit, names>>

\* return storage[self.__name__]
GetRead(t) ==
    /\ threads[t].pc = "read"
    /\ LET obj == threads[t].obj
       IN IF PropName \in DOMAIN storage[obj]
          THEN /\ threads' = [threads EXCEPT ![t].pc = "done",
                                             ![t].value = storage[obj][PropName]]
               /\ ret' = [NoRet EXCEPT !.op = "get", !.obj = obj,
                                       !.value = storage[obj][PropName]]
          ELSE /\ threads' = [threads EXCEPT ![t].pc = "done"]
               /\ ret' = [NoRet EXCEPT !.op = "get", !.obj = obj, !.raised = "KeyError"]
    /\ UNCHANGED <<storage, nalloc, fcalls, dicts, vm, variants, nvar, lastset, decls,
                   cdict, sig, emitters, nemit, names>>

\* value = self._default_factory.__get__(obj, objtype)()
GetFactory(t) ==
    /\ threads[t].pc = "factory"
    /\ nalloc < MaxAlloc
    /\ threads' = [threads EXCEPT ![t].pc = "store", ![t].value = nalloc + 1,
                                  ![t].called = TRUE]
    /\ nalloc' = nalloc + 1
    /\ fcalls' = [fcalls EXCEPT ![threads[t].obj] = @ + 1]
    /\ UNCHANGED <<storage, ret, dicts, vm, variants, nvar, lastset, decls,
                   cdict, sig, emitters, nemit, names>>

\* storage[self.__name__] = value; return value
GetStore(t) ==
    /\ threads[t].pc = "store"
    /\ storage' = [storage EXCEPT ![threads[t].obj] = DictSet(@, PropName, threads[t].value)]
    /\ threads' = [threads EXCEPT ![t].pc = "done"]
    /\ ret' = [NoRet EXCEPT !.op = "get", !.obj = threads[t].obj,
                            !.value = threads[t].value, !.called = TRUE]
    /\ UNCHANGED <<nalloc, fcalls, dicts, vm, variants, nvar, lastset, decls,
                   cdict, sig, emitters, nemit, names>>

-----------------------------------------------------------------------------
(* __set_name__: a descriptor object made outside a class body, which class *)
(* bodies then assign to attribute names                                    *)

\* the names the class bodies use
AttrNames == {"prop", "value", "_prop", "_value"}

\* name.startswith('_')
StartsWithUnderscore(name) == name \in {"_prop", "_value"}

\* immutable_property.__set_name__ on a descriptor whose __name__ is bound
immutable_property__set_name__(bound, name) ==
    IF bound = None
    THEN [__name__ |-> name, raised |-> None]
    ELSE IF name # bound /\ ~StartsWithUnderscore(name)
    THEN [__name__ |-> bound, raised |-> "TypeError: two different names"]
    ELSE [__name__ |-> bound, raised |-> None]

\* declare.__set_name__ on a declare object whose __name__ is bound
declare__set_name__Tolerant(bound, name) ==
    immutable_property__set_name__(bound, name)

declare__set_name__(bound, name) ==
    IF bound = None
    THEN [__name__ |-> name, raised |-> None]
    ELSE IF name # bound
    THEN [__name__ |-> bound, raised |-> "TypeError: two different names"]
    ELSE [__name__ |-> bound, raised |-> None]

\* class ...: <name> = the immutable_property object
PropSetName(name) ==
    /\ LET r == immutable_property__set_name__(names.immutable_property, name)
       IN /\ names' = [names EXCEPT !.immutable_property = r.__name__]
          /\ ret' = [NoRet EXCEPT !.op = "set_name", !.value = "immutable_property",
                                  !.key = name, !.raised = r.raised]
    /\ UNCHANGED <<storage, nalloc, fcalls, dicts, vm, variants, nvar, lastset, decls, cdict,
                   sig, emitters, nemit, threads>>

\* class ...: <name> = the declare object
DeclSetName(name) ==
    /\ LET r == declare__set_name__(names.declare, name)
       IN /\ names' = [names EXCEPT !.declare = r.__name__]
          /\ ret' = [NoRet EXCEPT !.op = "set_name", !.value = "declare",
                                  !.key = name, !.raised = r.raised]
    /\ UNCHANGED <<storage, nalloc, fcalls, dicts, vm, variants, nvar, lastset, decls, cdict,
                   sig, emitters, nemit, threads>>

-----------------------------------------------------------------------------
(* Specifications *)

\* variantmethod.__init__(key, func): self.virtual_table = {key: func}
variantmethod__init__(key, func) == DictSet(EmptyDict, key, func)

Init ==
    /\ storage = [i \in Instances |-> EmptyDict]
    /\ ret = NoRet
    /\ nalloc = 0
    /\ fcalls = [i \in Instances |-> 0]
    /\ dicts = <<variantmethod__init__(DefaultKey, DefaultFunc)>>
    /\ vm = [virtual_table |-> 1]
    /\ variants = EmptyDict
    /\ nvar = 0
    /\ lastset = EmptyDict
    /\ sig = [_cb_m |-> <<>>, _cb_f |-> <<>>]
    /\ emitters = EmptyDict
    /\ nemit = 0
    /\ names = [immutable_property |-> None, declare |-> None]
    /\ threads = [t \in Threads |-> [pc |-> "idle", obj |-> 0, value |-> 0, called |-> FALSE,
                                      raced |-> FALSE]]
    /\ decls = DictSet(EmptyDict, 1, [declare__init__("stub") EXCEPT !.__name__ = DeclName])
    /\ cdict = [c \in Classes |-> IF c = 1 THEN DictSet(EmptyDict, DeclName, 1)
                                           ELSE EmptyDict]

\* the values a caller may try to assign to a slot
SetValues == {0, 1}

NextSlot ==
    \/ \E obj \in Instances : PropGet(obj)
    \/ \E obj \in Instances, value \in SetValues : PropSet(obj, value)
    \/ \E obj \in Instances : PropDelete(obj)

SpecSlot == Init /\ [][NextSlot]_vars

NextVariant ==
    \/ \E kf \in Registrations : Register(kf[1], kf[2])
    \/ \E obj \in Instances : VariantGet(obj)
    \/ \E obj \in Instances, value \in SetValues : VariantSetAttr(obj, value)
    \/ \E obj \in Instances : VariantDelete(obj)
    \/ \E ref \in DOMAIN variants, args \in ArgTuples : Call(ref, args)
    \/ \E ref \in DOMAIN variants, val \in Keys : Set(ref, val)
    \/ \E ref \in DOMAIN variants, val \in Keys : GetItem(ref, val)
    \/ \E ref \in DOMAIN variants, val \in Keys : Contains(ref, val)
    \/ \E ref \in DOMAIN variants : LenOf(ref)
    \/ \E ref \in DOMAIN variants : Mapping(ref)

SpecVariant == Init /\ [][NextVariant]_vars

NextDeclare ==
    \/ \E ref \in DOMAIN decls, func \in ImplFuncs, owner \in Classes \cup {NoOwner} :
          Impl(ref, func, owner)
    \/ \E c \in Classes, func \in ImplFuncs : ClassImpl(c, func)
    \/ \E c \in Classes : Access(c)
    \/ \E c \in Classes : DeclSetAttr(c, "f")

SpecDeclare == Init /\ [][NextDeclare]_vars

\* one instance and its emitter
NextEmit ==
    \/ \E func \in MethodFuncs : Bindm(func)
    \/ \E func \in MethodFuncs : Unbindm(func)
    \/ \E func \in FreeFuncs : Bindf(func)
    \/ \E func \in FreeFuncs : Unbindf(func)
    \/ \E obj \in {1} : SignalGet(obj)
    \/ \E obj \in {1}, value \in SetValues : SignalSetAttr(obj, value)
    \/ \E obj \in {1} : SignalDelete(obj)
    \/ \E ref \in DOMAIN emitters, args \in EmitArgs : Emit(ref, args)
    \/ \E ref \in DOMAIN emitters, target \in ConnectTargets : Connect(ref, target)
    \/ \E ref \in DOMAIN emitters, target \in ConnectTargets : Disconnect(ref, target)

SpecEmit == Init /\ [][NextEmit]_vars

\* One instance whose class binds two different methods and two different
\* functions, and whose emitter is connected to further functions; every
\* callback accepts the emitted value.
OrderMethodFuncs == {"changed", "f1"}
OrderFreeFuncs == {"f0", "f1"}
OrderTargets == {Free("f0"), Free("f1")}

NextOrder ==
    \/ \E func \in OrderMethodFuncs : Bindm(func)
    \/ \E func \in OrderFreeFuncs : Bindf(func)
    \/ \E obj \in {1} : SignalGet(obj)
    \/ \E obj \in {1} : SignalDelete(obj)
    \/ \E ref \in DOMAIN emitters, target \in OrderTargets : Connect(ref, target)
    \/ \E ref \in DOMAIN emitters : Emit(ref, <<"x">>)

SpecOrder == Init /\ [][NextOrder]_vars

\* Several instances of a class that binds the method changed; each has its
\* own emitter, to which f1 is connected and from which it is disconnected.
NextSignal ==
    \/ Bindm("changed")
    \/ \E obj \in Instances : SignalGet(obj)
    \/ \E ref \in DOMAIN emitters : Connect(ref, Free("f1"))
    \/ \E ref \in DOMAIN emitters : Disconnect(ref, Free("f1"))
    \/ \E ref \in DOMAIN emitters : Emit(ref, <<"x">>)

SpecSignal == Init /\ [][NextSignal]_vars

\* Several instances of a class whose Signal is given a method and a
\* function before, between and after the instances' first accesses.
NextSnapshot ==
    \/ Bindm("changed")
    \/ Bindf("f0")
    \/ \E obj \in Instances : SignalGet(obj)
    \/ \E ref \in DOMAIN emitters : Emit(ref, <<"x">>)

SpecSnapshot == Init /\ [][NextSnapshot]_vars

\* One instance whose emitter is connected to a function, to an object that
\* is not callable and to a builtin without a signature, and whose class
\* binds a function that declares no parameter as a method.
IntrospectTargets == {Free("f1"), Free("five"), Free("max")}

NextIntrospect ==
    \/ Bindm("f0")
    \/ \E obj \in {1} : SignalGet(obj)
    \/ \E ref \in DOMAIN emitters, target \in IntrospectTargets : Connect(ref, target)
    \/ \E ref \in DOMAIN emitters : Emit(ref, <<"x">>)

SpecIntrospect == Init /\ [][NextIntrospect]_vars

\* One instance whose emitter is connected to a plain function, to a
\* callback that disconnects itself and to a callback that connects a
\* further target, both from inside emit.
ReentrantTargets == {Free("f0"), Free("once"), Free("adder")}

NextReentrant ==
    \/ \E obj \in {1} : SignalGet(obj)
    \/ \E ref \in DOMAIN emitters, target \in ReentrantTargets : Connect(ref, target)
    \/ \E ref \in DOMAIN emitters, target \in ReentrantTargets : Disconnect(ref, target)
    \/ \E ref \in DOMAIN emitters : Emit(ref, <<>>)

SpecReentrant == Init /\ [][NextReentrant]_vars

\* One instance whose variant slot and signal slot are materialized, used,
\* deleted and materialized again, while the class goes on binding f0.
NextDiscard ==
    \/ \E obj \in {1} : VariantGet(obj)
    \/ \E ref \in DOMAIN variants, val \in {"sub", "mul"} : Set(ref, val)
    \/ \E obj \in {1} : VariantDelete(obj)
    \/ Bindf("f0")
    \/ \E obj \in {1} : SignalGet(obj)
    \/ \E ref \in DOMAIN emitters : Connect(ref, Free("f1"))
    \/ \E obj \in {1} : SignalDelete(obj)

SpecDiscard == Init /\ [][NextDiscard]_vars

\* Descriptor objects being assigned to names in class bodies
NextName ==
    \/ \E name \in AttrNames : PropSetName(name)
    \/ \E name \in AttrNames : DeclSetName(name)

SpecName == Init /\ [][NextName]_vars

\* Threads that each read the plain slot of some instance once
NextRace ==
    \/ \E t \in Threads, obj \in Instances : GetBegin(t, obj)
    \/ \E t \in Threads : GetCheck(t)
    \/ \E t \in Threads : GetRead(t)
    \/ \E t \in Threads : GetFactory(t)
    \/ \E t \in Threads : GetStore(t)

SpecRace == Init /\ [][NextRace]_vars

Next ==
    \/ NextSlot \/ NextVariant \/ NextDeclare \/ NextEmit
    \/ NextOrder \/ NextSignal \/ NextSnapshot \/ NextIntrospect
    \/ NextName \/ NextRace \/ NextReentrant \/ NextDiscard

Spec == Init /\ [][Next]_vars

-----------------------------------------------------------------------------
(* Properties of the variant dispatcher *)

\* the class's table, and the dispatcher an instance holds
ClassTable == dicts[vm.virtual_table]
HasVariant(obj) == VariantName \in DOMAIN storage[obj]
VariantOf(obj) == storage[obj][VariantName]

\* the key history says a dispatcher has: the construction key until the
\* first set, then the key of the latest set
HistoryKey(ref) == IF lastset[ref] = None THEN DefaultKey ELSE lastset[ref]

\* C1: a call of a dispatcher runs the function the class's table holds under
\* the dispatcher's current key, with self = the instance that holds the
\* dispatcher, and returns that function's result; the current key is the
\* construction key until the first set and the latest set key afterwards.
C1_CallDispatchesCurrentKey ==
    /\ \A ref \in DOMAIN variants : variants[ref].curr_key = HistoryKey(ref)
    /\ (ret.op = "call" /\ HistoryKey(ret.ref) \in DOMAIN ClassTable) =>
          /\ ret.raised = None
          /\ ret.value = Apply(ClassTable[HistoryKey(ret.ref)], ret.args[1], ret.args[2])
          /\ \A obj \in Instances :
                (HasVariant(obj) /\ VariantOf(obj) = ret.ref) => ret.self = obj

\* C1 witness: after set("sub"), calculate(2, 3) returned -1 on the instance
C1_Witness ==
    /\ ret.op = "call" /\ ret.raised = None
    /\ lastset[ret.ref] = "sub"
    /\ ret.args = <<2, 3>> /\ ret.value = 0 - 1
    /\ HasVariant(ret.self) /\ VariantOf(ret.self) = ret.ref

\* C6: a set on the dispatcher of instance a leaves the current key and the
\* call results of the dispatcher of every other instance b, and the shared
\* table, as they were.
C6_SetAffectsOnlyOwnDispatcher ==
    [][ret'.op = "set" =>
         /\ dicts' = dicts /\ vm' = vm /\ storage' = storage
         /\ \A a, b \in Instances :
               (a # b /\ HasVariant(a) /\ HasVariant(b) /\ VariantOf(a) = ret'.ref) =>
                  /\ variants'[VariantOf(b)].curr_key = variants[VariantOf(b)].curr_key
                  /\ \A args \in ArgTuples :
                        _Variant__call__(variants[VariantOf(b)], args)'
                           = _Variant__call__(variants[VariantOf(b)], args)]_vars

\* C6 witness: a set was done on one of two materialized dispatchers and
\* their current keys differ
C6_Witness ==
    /\ ret.op = "set"
    /\ \E a, b \in Instances :
          /\ a # b /\ HasVariant(a) /\ HasVariant(b) /\ VariantOf(a) = ret.ref
          /\ variants[VariantOf(a)].curr_key = ret.key
          /\ variants[VariantOf(b)].curr_key # ret.key

\* C8: set never raises and makes its key the current key, registered or not;
\* the current key changes in no other way; a call raises AttributeError
\* exactly when the current key is not in the table at the time of the call.
C8_UnregisteredKeyFailsAtCall ==
    [][/\ ret'.op = "set" =>
             /\ ret'.raised = None
             /\ variants'[ret'.ref].curr_key = ret'.key
       /\ \A ref \in (DOMAIN variants) \cap (DOMAIN variants') :
             variants'[ref].curr_key # variants[ref].curr_key =>
                ret'.op = "set" /\ ret'.ref = ref
       /\ ret'.op = "call" =>
             (ret'.raised = "AttributeError"
                <=> variants[ret'.ref].curr_key \notin DOMAIN ClassTable)
       /\ ret'.op = "call" => ret'.raised \in {None, "AttributeError"}]_vars

\* C8 witness: a call raised for a key that an earlier set had made current
C8_Witness ==
    /\ ret.op = "call" /\ ret.raised = "AttributeError"
    /\ lastset[ret.ref] # None
    /\ lastset[ret.ref] \notin DOMAIN ClassTable

\* C9: dispatcher[key] is the function registered under key bound to the
\* holding instance, whatever the current key, and KeyError when key is not
\* registered; getitem, contains, len and mapping change neither a current
\* key nor the table, so calls dispatch as before.
C9_ItemAndQueriesArePure ==
    [][ret'.op \in {"getitem", "contains", "len", "mapping"} =>
         /\ UNCHANGED <<storage, dicts, vm, variants>>
         /\ \A ref \in DOMAIN variants, args \in ArgTuples :
               _Variant__call__(variants[ref], args)' = _Variant__call__(variants[ref], args)
         /\ ret'.op = "getitem" =>
               IF ret'.key \in DOMAIN ClassTable
               THEN /\ ret'.raised = None
                    /\ ret'.value.func = ClassTable[ret'.key]
                    /\ \A obj \in Instances :
                          (HasVariant(obj) /\ VariantOf(obj) = ret'.ref) =>
                             ret'.value.self = obj
               ELSE ret'.raised = "KeyError"
         /\ ret'.op = "contains" => ret'.value = (ret'.key \in DOMAIN ClassTable)
         /\ ret'.op = "len" => ret'.value = Cardinality(DOMAIN ClassTable)]_vars

\* C9 witness: an item was fetched under a key other than the current one
C9_Witness ==
    /\ ret.op = "getitem" /\ ret.raised = None
    /\ ret.key # variants[ret.ref].curr_key
    /\ \E obj \in Instances : HasVariant(obj) /\ VariantOf(obj) = ret.ref

\* C10: every dispatcher references the table object of the class, so after
\* register(key)(func) every materialized dispatcher contains key, yields
\* func for item(key) and calls func when key is its current key.
C10_LateRegistrationVisible ==
    /\ \A ref \in DOMAIN variants : variants[ref]._vt_ref = vm.virtual_table
    /\ ret.op = "register" =>
          \A obj \in Instances : HasVariant(obj) =>
             LET v == variants[VariantOf(obj)]
             IN /\ _Variant__contains__(v, ret.key)
                /\ _Variant__getitem__(v, ret.key).value = [func |-> ret.value, self |-> obj]
                /\ v.curr_key = ret.key =>
                      \A args \in ArgTuples :
                         _Variant__call__(v, args).out
                            = [value |-> Apply(ret.value, args[1], args[2]), self |-> obj]

\* C10 witness: a key that was not in the table has been registered while an
\* instance already holds a dispatcher whose current key it is
C10_Witness ==
    /\ ret.op = "register" /\ ret.called
    /\ \E obj \in Instances : HasVariant(obj) /\ variants[VariantOf(obj)].curr_key = ret.key

-----------------------------------------------------------------------------
(* Properties of the plain slot *)

HasProp(obj) == PropName \in DOMAIN storage[obj]

\* C2: while an instance holds a value for the slot and the step is not a
\* delete of the slot on that instance, the stored value stays the same, the
\* factory is not invoked for the instance, a get returns the stored value and
\* an assignment raises TypeError.
C2_CachedUntilDelete ==
    [][\A obj \in Instances :
         (HasProp(obj) /\ ~(ret'.op = "delete" /\ ret'.obj = obj)) =>
            /\ HasProp(obj)'
            /\ storage'[obj][PropName] = storage[obj][PropName]
            /\ fcalls'[obj] = fcalls[obj]
            /\ (ret'.op = "get" /\ ret'.obj = obj) =>
                  ret'.value = storage[obj][PropName] /\ ~ret'.called
            /\ (ret'.op = "setattr" /\ ret'.obj = obj) => ret'.raised = "TypeError"]_vars

\* C2 witness: an assignment was refused on an instance that holds a value
\* the factory made in its only invocation for that instance
C2_Witness ==
    /\ ret.op = "setattr" /\ ret.raised = "TypeError"
    /\ HasProp(ret.obj) /\ fcalls[ret.obj] = 1
    /\ storage[ret.obj][PropName] # ret.value

-----------------------------------------------------------------------------
(* Properties of declare *)

\* what instance.face_normal gives on the instance of class c
AccessResult(c) == declare__get__(decls[Lookup(c)], c, c)
HasOwn(c) == DeclName \in DOMAIN cdict[c]

\* C3: impl(g, owner=S) on a declaration, where class S has no entry of its
\* own for the name, raises nothing, leaves every existing declare object and
\* every other class __dict__ as they were, makes instances of S resolve to g,
\* and leaves the resolution of every ancestor of S (its implementation, or
\* NotImplementedError) as it was; and filling a declaration afterwards does
\* not change the resolution of a class whose own declaration is another one.
C3_SubclassOverrideLeavesParent ==
    [][/\ \A S \in Classes :
             (/\ ret'.op = "impl" /\ ret'.owner = S
              /\ ~HasOwn(S)
              /\ (IsCallable(ret'.value) \/ HasGet(ret'.value))) =>
                /\ ret'.raised = None
                /\ \A ref \in DOMAIN decls : decls'[ref] = decls[ref]
                /\ \A c \in Classes : c # S => cdict'[c] = cdict[c]
                /\ AccessResult(S)'.raised = None
                /\ AccessResult(S)'.value.func = ret'.value
                /\ \A c \in Classes : c < S => AccessResult(c)' = AccessResult(c)
       /\ \A c \in Classes :
             (HasOwn(c) /\ ret'.op = "impl" /\ ret'.ref # cdict[c][DeclName]) =>
                AccessResult(c)' = AccessResult(c)]_vars

\* C3 witness: Example2 was given g by an override while Example resolves to
\* f, and a state where the override came first and f was supplied last
C3_Witness ==
    /\ ret.op = "impl" /\ ret.raised = None
    /\ HasOwn(2) /\ cdict[2][DeclName] # cdict[1][DeclName]
    /\ AccessResult(2).raised = None /\ AccessResult(1).raised = None
    /\ AccessResult(2).value = [func |-> "g", self |-> 2]
    /\ AccessResult(1).value = [func |-> "f", self |-> 1]
    /\ ret.owner = 1 /\ ret.ref = cdict[1][DeclName]

\* C4: an access raises NotImplementedError exactly when the declaration the
\* lookup finds for the class has no implementation; otherwise it yields the
\* implementation, bound to the instance when it has __get__, and calling it
\* gives the implementation's result; and a filled declaration keeps its
\* implementation, so later accesses that find it yield the same function.
C4_AccessAfterImpl ==
    [][/\ ret'.op = "access" =>
             LET d == decls[Lookup(ret'.obj)]
             IN IF d.__func__ = None
                THEN ret'.raised = "NotImplementedError"
                ELSE /\ ret'.raised = None
                     /\ ret'.value.func = d.__func__
                     /\ ret'.value.self = IF HasGet(d.__func__) THEN ret'.obj ELSE 0
                     /\ ret'.result = RunImpl(d.__func__, ret'.value.self)
       /\ \A c \in Classes :
             (decls[Lookup(c)].__func__ # None /\ Lookup(c)' = Lookup(c)) =>
                AccessResult(c)' = AccessResult(c)]_vars

\* C4 witness: an access returned f bound to the instance, from a declaration
\* that started without an implementation
C4_Witness ==
    /\ ret.op = "access" /\ ret.raised = None
    /\ ret.ref = 1
    /\ ret.value = [func |-> "f", self |-> ret.obj]
    /\ ret.result = RunImpl("f", ret.obj)

\* C5: the implementation of a declare object never changes once it is set;
\* impl with a valid function, and with no owner or an owner whose __dict__
\* has the name, raises "already implemented" on a filled declaration and
\* changes nothing; a class never gets a second declare object of its own.
C5_ImplementedOnce ==
    [][/\ \A ref \in DOMAIN decls :
             decls[ref].__func__ # None => decls'[ref].__func__ = decls[ref].__func__
       /\ \A c \in Classes : HasOwn(c) => cdict'[c] = cdict[c]
       /\ (/\ ret'.op = "impl"
           /\ (IsCallable(ret'.value) \/ HasGet(ret'.value))
           /\ (ret'.owner = NoOwner \/ HasOwn(ret'.owner))
           /\ decls[ret'.ref].__func__ # None) =>
             /\ ret'.raised = "TypeError: already implemented"
             /\ decls' = decls /\ cdict' = cdict]_vars

\* C5 witness: a second impl on a declaration that holds f was refused
C5_Witness ==
    /\ ret.op = "impl" /\ ret.raised = "TypeError: already implemented"
    /\ ret.value = "g" /\ decls[ret.ref].__func__ = "f"
    /\ ret.owner = NoOwner

-----------------------------------------------------------------------------
(* Properties of the emitter *)

\* what the claim says emit passes to callback cb
ClaimedArgs(cb, args) ==
    IF Len(args) = 0 THEN <<>> ELSE IF Params(cb) = 0 THEN <<>> ELSE args

\* the positions of the list whose callbacks can be introspected
Introspectable(list) == {j \in 1..Len(list) : Introspect(list[j]) = "ok"}

\* the positions where the call of the callback with the claimed arguments
\* fails: fewer arguments than the callback requires
Failing(list, args) ==
    {j \in Introspectable(list) : Len(ClaimedArgs(list[j], args)) < Params(list[j])}

\* the smallest position of a non-empty set of positions
FirstPos(S) == CHOOSE j \in S : \A k \in S : j <= k

\* C7 as stated: emit with at most one value calls every callback of the list
\* that can be introspected: one that declares no parameter with no
\* arguments, one that declares parameters with the value, and, for emit(),
\* every callback with no arguments.
C7_EmitCallsEveryCallback ==
    (ret.op = "emit" /\ Len(ret.args) <= 1) =>
       \A j \in Introspectable(ret.cbs) :
          \E n \in 1..Len(ret.value) :
             ret.value[n] = [cb |-> ret.cbs[j], args |-> ClaimedArgs(ret.cbs[j], ret.args)]

\* C7, amended: emit with at most one value goes through the list in order
\* and calls each callback that can be introspected, one that declares no
\* parameter with no arguments and one that declares parameters with the value
\* (with nothing for emit()), up to and including the first callback that
\* requires a parameter it is not given; that call raises TypeError out of emit
\* and the callbacks after it are not called.
C7_EmitCallsUntilFirstFailure ==
    (ret.op = "emit" /\ Len(ret.args) <= 1) =>
       LET list == ret.cbs
           failing == Failing(list, ret.args)
           last == IF failing = {} THEN Len(list) ELSE FirstPos(failing)
           IsCalled(j) == j \in Introspectable(list)
           expected == SelectSeq([j \in 1..last |-> j], IsCalled)
       IN /\ Len(ret.value) = Len(expected)
          /\ \A n \in 1..Len(expected) :
                ret.value[n] = [cb |-> list[expected[n]],
                                args |-> ClaimedArgs(list[expected[n]], ret.args)]
          /\ ret.raised = IF failing = {} THEN None ELSE "TypeError: missing argument"

\* C7 witness: emit("x") called a callback without parameters with no
\* arguments and a callback with one parameter with "x"
C7_Witness ==
    /\ ret.op = "emit" /\ ret.args = <<"x">> /\ ret.raised = None
    /\ \E n, m \in 1..Len(ret.value) :
          /\ Params(ret.value[n].cb) = 0 /\ ret.value[n].args = <<>>
          /\ Params(ret.value[m].cb) = 1 /\ ret.value[m].args = <<"x">>

-----------------------------------------------------------------------------
(* Properties of immutable_property.__delete__ (SpecSlot) *)

\* C11: a delete of the slot on an instance raises nothing, leaves the
\* instance without an entry and leaves every other instance's dictionary as
\* it was; when the instance had no entry the delete changes nothing at all;
\* and a get on an instance without an entry (in particular the first get
\* after a delete) invokes the factory once more, returns its new result and
\* stores that result as the instance's entry.
C11_DeleteThenRematerialize ==
    [][\A obj \in Instances :
         /\ (ret'.op = "delete" /\ ret'.obj = obj) =>
               /\ ret'.raised = None
               /\ ~HasProp(obj)'
               /\ \A other \in Instances \ {obj} : storage'[other] = storage[other]
               /\ fcalls' = fcalls
               /\ ~HasProp(obj) => storage' = storage
         /\ (ret'.op = "get" /\ ret'.obj = obj /\ ~HasProp(obj)) =>
               /\ ret'.called
               /\ fcalls'[obj] = fcalls[obj] + 1
               /\ HasProp(obj)'
               /\ storage'[obj][PropName] = ret'.value
               /\ \A other \in Instances :
                     HasProp(other) => storage[other][PropName] # ret'.value]_vars

\* C11 witness: a get has just run the factory for the second time on an
\* instance (so a delete came between the two runs) and the instance holds
\* the new result
C11_Witness ==
    /\ ret.op = "get" /\ ret.called
    /\ fcalls[ret.obj] = 2
    /\ HasProp(ret.obj) /\ storage[ret.obj][PropName] = ret.value
    /\ ret.value = 2

-----------------------------------------------------------------------------
(* Properties of the resolution of a declaration along the class chain     *)
(* (SpecDeclare)                                                           *)

\* the nearest class, from c towards Example, whose __dict__ has the name
Nearest(c) ==
    CHOOSE a \in 1..c : HasOwn(a) /\ \A b \in 1..c : HasOwn(b) => b <= a

\* C12: for every class, an access on its instance yields what the declare
\* object of the nearest class carrying one yields for that instance: that
\* object's implementation (whenever it was supplied), bound to the
\* instance, or NotImplementedError while it has none; so a class without an
\* entry of its own resolves as its parent does, an override on an
\* intermediate class included; and every access that happened returned so.
C12_InheritsNearestDeclaration ==
    /\ \A c \in Classes :
          LET d == decls[cdict[Nearest(c)][DeclName]]
              expected == declare__get__(d, c, c)
          IN /\ AccessResult(c).raised = expected.raised
             /\ AccessResult(c).raised = None => AccessResult(c).value = expected.value
             /\ (~HasOwn(c) /\ c > 1) =>
                   /\ AccessResult(c).raised = AccessResult(c - 1).raised
                   /\ AccessResult(c).raised = None =>
                         AccessResult(c).value.func = AccessResult(c - 1).value.func
    /\ ret.op = "access" =>
          LET d == decls[cdict[Nearest(ret.obj)][DeclName]]
          IN /\ ret.ref = cdict[Nearest(ret.obj)][DeclName]
             /\ IF d.__func__ = None
                THEN ret.raised = "NotImplementedError"
                ELSE ret.raised = None /\ ret.value.func = d.__func__

\* C12 witness: the instance of the last class, which has no entry of its
\* own, was given g - the override made on the intermediate class Example2 -
\* while Example itself resolves to f
C12_Witness ==
    /\ ret.op = "access" /\ ret.obj = 3 /\ ret.raised = None
    /\ ~HasOwn(3) /\ HasOwn(2)
    /\ ret.value = [func |-> "g", self |-> 3]
    /\ decls[cdict[1][DeclName]].__func__ = "f"

-----------------------------------------------------------------------------
(* Properties of the order of the callbacks (SpecOrder) *)

\* the callbacks of a sequence of calls
CalledOf(log) == [n \in 1..Len(log) |-> log[n].cb]

\* C13: bindm and bindf put the callback at the end of their class-level
\* list; a materialization makes the list of the new emitter of the bindm
\* callbacks in their order, each bound to the instance, followed by the
\* bindf callbacks in their order; connect puts the target at the end of the
\* emitter's list; and an emit that raises nothing has called the callbacks
\* of the list that can be introspected, each once, in the order of the list.
C13_EmitOrder ==
    [][/\ (ret'.op = "bindm" /\ ret'.raised = None) =>
             sig'._cb_m = sig._cb_m \o <<ret'.value>> /\ sig'._cb_f = sig._cb_f
       /\ (ret'.op = "bindf" /\ ret'.raised = None) =>
             sig'._cb_f = sig._cb_f \o <<ret'.value>> /\ sig'._cb_m = sig._cb_m
       /\ (ret'.op = "get" /\ ret'.called) =>
             LET list == emitters'[ret'.value]._cb_list
                 nm == Len(sig._cb_m)
                 nf == Len(sig._cb_f)
             IN /\ Len(list) = nm + nf
                /\ \A j \in 1..nm : list[j] = [func |-> sig._cb_m[j], self |-> ret'.obj]
                /\ \A j \in 1..nf : list[nm + j] = [func |-> sig._cb_f[j], self |-> 0]
       /\ ret'.op = "connect" =>
             emitters'[ret'.ref]._cb_list =
                emitters[ret'.ref]._cb_list \o <<ret'.value>>
       /\ (ret'.op = "emit" /\ ret'.raised = None) =>
             LET Ok(cb) == Introspect(cb) = "ok"
             IN CalledOf(ret'.value) = SelectSeq(emitters[ret'.ref]._cb_list, Ok)]_vars

\* C13 witness: emit("x") on an emitter made after bindm(changed) and
\* bindf(f0), and connected to f1 afterwards, called the bound method first,
\* then f0, then f1
C13_Witness ==
    /\ ret.op = "emit" /\ ret.raised = None
    /\ sig._cb_m = <<"changed">> /\ sig._cb_f = <<"f0">>
    /\ ret.value = << [cb |-> [func |-> "changed", self |-> 1], args |-> <<"x">>],
                      [cb |-> Free("f0"), args |-> <<>>],
                      [cb |-> Free("f1"), args |-> <<"x">>] >>

-----------------------------------------------------------------------------
(* Properties of the emitters of several instances (SpecSignal) *)

\* C14: a connect or a disconnect on one emitter changes the list of that
\* emitter only: every other emitter, the class-level lists of the Signal and
\* the instances' dictionaries stay as they were; and an emit on an emitter
\* calls only callbacks of that emitter's own list, its bound methods with
\* the emitter's own instance, whatever is connected to other emitters.
C14_ConnectIsPerInstance ==
    [][/\ ret'.op \in {"connect", "disconnect"} =>
             /\ DOMAIN emitters' = DOMAIN emitters
             /\ \A other \in DOMAIN emitters \ {ret'.ref} :
                   emitters'[other] = emitters[other]
             /\ emitters'[ret'.ref].obj = emitters[ret'.ref].obj
             /\ sig' = sig
             /\ storage' = storage
       /\ ret'.op = "emit" =>
             /\ emitters' = emitters /\ sig' = sig
             /\ \A n \in 1..Len(ret'.value) :
                   /\ Occurs(emitters[ret'.ref]._cb_list, ret'.value[n].cb)
                   /\ ret'.value[n].cb.self \in {0, emitters[ret'.ref].obj}]_vars

\* C14 witness: f1 is connected to the emitter of one instance, and an emit
\* on the emitter of another instance called that instance's bound method
\* and nothing else
C14_Witness ==
    /\ ret.op = "emit" /\ ret.raised = None
    /\ \E other \in DOMAIN emitters \ {ret.ref} :
          /\ Occurs(emitters[other]._cb_list, Free("f1"))
          /\ emitters[other].obj # emitters[ret.ref].obj
    /\ ~Occurs(emitters[ret.ref]._cb_list, Free("f1"))
    /\ CalledOf(ret.value) = <<[func |-> "changed", self |-> emitters[ret.ref].obj]>>

-----------------------------------------------------------------------------
(* Properties of the errors of emit and disconnect (SpecEmit) *)

\* C15: an emit with more than one positional value raises the TypeError
\* "too many arguments" having called no callback, and leaves the emitter's
\* list, every other emitter and the class-level lists as they were.
C15_TooManyArguments ==
    [][(ret'.op = "emit" /\ Len(ret'.args) > 1) =>
          /\ ret'.raised = "TypeError: too many arguments"
          /\ ret'.value = <<>>
          /\ emitters' = emitters
          /\ sig' = sig
          /\ storage' = storage]_vars

\* C15 witness: emit("x", "y") was refused on an emitter whose list holds a
\* callback that emit("x") would have called
C15_Witness ==
    /\ ret.op = "emit" /\ ret.args = <<"x", "y">>
    /\ ret.raised = "TypeError: too many arguments"
    /\ ret.ref \in DOMAIN emitters
    /\ emitters[ret.ref]._cb_list = ret.cbs
    /\ \E j \in 1..Len(ret.cbs) : ret.cbs[j] = Free("f1")

\* C16: a disconnect raises nothing; with a target that is not in the
\* emitter's list it leaves the list as it was; with a target that is in the
\* list it takes out the occurrence at the smallest position and keeps every
\* other entry, later occurrences of the target included, in its order.
C16_DisconnectFirstOccurrence ==
    [][ret'.op = "disconnect" =>
          LET list == emitters[ret'.ref]._cb_list
              at == {j \in 1..Len(list) : list[j] = ret'.value}
          IN /\ ret'.raised = None
             /\ emitters'[ret'.ref]._cb_list =
                   IF at = {} THEN list
                   ELSE SubSeq(list, 1, FirstPos(at) - 1)
                           \o SubSeq(list, FirstPos(at) + 1, Len(list))]_vars

\* C16 witness: disconnect(f0) left f1 followed by a second occurrence of f0
C16_Witness ==
    /\ ret.op = "disconnect" /\ ret.value = Free("f0")
    /\ ret.ref \in DOMAIN emitters
    /\ emitters[ret.ref]._cb_list = <<Free("f1"), Free("f0")>>

-----------------------------------------------------------------------------
(* Properties of __set_name__ (SpecName) *)

\* C17 as stated: for the slot and for the declaration alike, the first
\* binding fixes the name; a later binding under the same name, or under a
\* different name that starts with an underscore, raises nothing; a later
\* binding under a different public name raises TypeError; and no later
\* binding changes the bound name.
C17_PrivateAliasAccepted ==
    [][\A kind \in {"immutable_property", "declare"} :
         (ret'.op = "set_name" /\ ret'.value = kind) =>
            IF names[kind] = None
            THEN names'[kind] = ret'.key /\ ret'.raised = None
            ELSE /\ names'[kind] = names[kind]
                 /\ ret'.raised =
                       IF ret'.key # names[kind] /\ ~StartsWithUnderscore(ret'.key)
                       THEN "TypeError: two different names"
                       ELSE None]_vars

\* C17, amended: the first binding fixes the name and no later binding
\* changes it; a later binding under the same name raises nothing; a later
\* binding of a slot under a different name raises TypeError when that name
\* is public and raises nothing when it starts with an underscore; a later
\* binding of a declaration under a different name raises TypeError whether
\* that name is public or starts with an underscore.
C17_NameFixedByFirstBinding ==
    [][\A kind \in {"immutable_property", "declare"} :
         (ret'.op = "set_name" /\ ret'.value = kind) =>
            IF names[kind] = None
            THEN names'[kind] = ret'.key /\ ret'.raised = None
            ELSE /\ names'[kind] = names[kind]
                 /\ ret'.raised =
                       IF /\ ret'.key # names[kind]
                          /\ (kind = "declare" \/ ~StartsWithUnderscore(ret'.key))
                       THEN "TypeError: two different names"
                       ELSE None]_vars

\* C17 witness: the declaration bound as "prop" has just refused the
\* private alias "_prop" and is still bound as "prop"
C17_Witness ==
    /\ ret.op = "set_name" /\ ret.value = "declare" /\ ret.key = "_prop"
    /\ ret.raised = "TypeError: two different names"
    /\ names.declare = "prop"

-----------------------------------------------------------------------------
(* Properties of the snapshot an emitter takes (SpecSnapshot) *)

\* C18: a bindm or a bindf leaves every existing emitter as it was; a first
\* access makes the emitter's list from the class-level lists as they are at
\* that moment, the bindm callbacks bound to the instance; a later access
\* returns the same emitter and changes no emitter; and an emit changes no
\* emitter and calls exactly the entries of the emitter's list, so it never
\* calls a callback bound after the emitter was made, nor binds again.
C18_ListIsSnapshot ==
    [][/\ ret'.op \in {"bindm", "bindf"} => emitters' = emitters
       /\ (ret'.op = "get" /\ ret'.called) =>
             /\ emitters'[ret'.value]._cb_list =
                   [j \in 1..Len(sig._cb_m) |-> [func |-> sig._cb_m[j], self |-> ret'.obj]]
                      \o [j \in 1..Len(sig._cb_f) |-> [func |-> sig._cb_f[j], self |-> 0]]
             /\ \A e \in DOMAIN emitters : emitters'[e] = emitters[e]
       /\ (ret'.op = "get" /\ ~ret'.called) =>
             /\ emitters' = emitters
             /\ ret'.value = storage[ret'.obj][SignalName]
       /\ ret'.op = "emit" =>
             /\ emitters' = emitters
             /\ CalledOf(ret'.value) = emitters[ret'.ref]._cb_list]_vars

\* C18 witness: the class-level lists hold changed and f0; the emitter of one
\* instance, made before either was bound, was emitted on and called
\* nothing, while the emitter another instance made later holds both
C18_Witness ==
    /\ ret.op = "emit" /\ ret.raised = None /\ ret.value = <<>>
    /\ sig = [_cb_m |-> <<"changed">>, _cb_f |-> <<"f0">>]
    /\ emitters[ret.ref]._cb_list = <<>>
    /\ \E e \in DOMAIN emitters :
          /\ emitters[e].obj # emitters[ret.ref].obj
          /\ emitters[e]._cb_list = <<[func |-> "changed", self |-> emitters[e].obj],
                                      Free("f0")>>

-----------------------------------------------------------------------------
(* Properties of emit over callbacks without a signature (SpecIntrospect) *)

\* C19 as stated: an emit with one value raises nothing on account of a
\* callback that cannot be introspected, does not call such a callback, and
\* calls every other callback of the list, in the order of the list.
C19_UnintrospectableSkipped ==
    (ret.op = "emit" /\ Len(ret.args) = 1) =>
       LET Ok(cb) == Introspect(cb) = "ok"
       IN /\ ret.raised = None
          /\ CalledOf(ret.value) = SelectSeq(ret.cbs, Ok)

-----------------------------------------------------------------------------
(* Properties of concurrent first accesses (SpecRace) *)

\* the threads that access the slot of instance obj
ThreadsOn(obj) == {t \in Threads : threads[t].obj = obj}

\* the threads that have run the factory
Computed(obj) == {t \in ThreadsOn(obj) : threads[t].called}

\* C20: the membership test and the store of a first access are separate
\* steps.  The factory has run for an instance as many times as threads
\* found no entry and went on; it has run more than once only when some
\* thread found no entry while another thread on the same instance had found
\* none and had not stored yet; whenever that has happened and the threads
\* have finished, the factory has run at least twice for the instance; and
\* two finished accesses that both ran the factory returned different
\* values.
C20_FirstAccessRace ==
    \A obj \in Instances :
       /\ fcalls[obj] = Cardinality(Computed(obj))
       /\ fcalls[obj] > 1 => \E t \in ThreadsOn(obj) : threads[t].raced
       /\ ((\E t \in ThreadsOn(obj) : threads[t].raced)
             /\ \A t \in ThreadsOn(obj) : threads[t].pc = "done") => fcalls[obj] >= 2
       /\ \A t, u \in Computed(obj) :
             (t # u /\ threads[t].pc = "done" /\ threads[u].pc = "done") =>
                threads[t].value # threads[u].value

\* C20 witness: two threads have finished their access to the same
\* instance, the factory has run twice for it and they returned different
\* values, one of which is no longer the instance's entry
C20_Witness ==
    \E obj \in Instances : \E t, u \in ThreadsOn(obj) :
       /\ t # u
       /\ threads[t].pc = "done" /\ threads[u].pc = "done"
       /\ fcalls[obj] = 2
       /\ threads[t].value # threads[u].value
       /\ storage[obj][PropName] = threads[u].value

-----------------------------------------------------------------------------
(* Properties of emit over callbacks that change the list (SpecReentrant) *)

\* C21 as stated: an emit that completes has called exactly the callbacks
\* that were in the emitter's list when the emit began and that can be
\* introspected, each once and in the order of that list, whatever the
\* callbacks connect or disconnect during the emit.
C21_EmitCallsListAtStart ==
    (ret.op = "emit" /\ ret.raised = None) =>
       LET Ok(cb) == Introspect(cb) = "ok"
       IN CalledOf(ret.value) = SelectSeq(ret.cbs, Ok)

-----------------------------------------------------------------------------
(* Properties of deleting a variant slot or a signal slot (SpecDiscard) *)

HasSignal(obj) == SignalName \in DOMAIN storage[obj]

\* C22: deleting a materialized variant slot or signal slot on an instance
\* removes the instance's entry and with it the dispatcher or the emitter;
\* an access to the variant slot of an instance without an entry stores and
\* returns a new dispatcher of that instance whose curr_key is the key given
\* to variantmethod, whatever key was set before; and an access to the
\* signal slot of an instance without an entry stores and returns a new
\* emitter whose list holds the callbacks of the class-level lists as they
\* are at that moment and nothing else, so no target of an earlier connect.
C22_DeleteDiscardsInstanceState ==
    [][\A obj \in Instances :
         /\ (VariantDelete(obj) /\ HasVariant(obj)) =>
               /\ ~HasVariant(obj)'
               /\ VariantOf(obj) \notin DOMAIN variants'
         /\ (VariantGet(obj) /\ ~HasVariant(obj)) =>
               /\ HasVariant(obj)'
               /\ VariantOf(obj)' \notin DOMAIN variants
               /\ variants'[VariantOf(obj)'].curr_key = DefaultKey
               /\ variants'[VariantOf(obj)'].instance = obj
               /\ ret'.value = VariantOf(obj)'
         /\ (SignalDelete(obj) /\ HasSignal(obj)) =>
               /\ ~HasSignal(obj)'
               /\ storage[obj][SignalName] \notin DOMAIN emitters'
         /\ (SignalGet(obj) /\ ~HasSignal(obj)) =>
               /\ HasSignal(obj)'
               /\ storage'[obj][SignalName] \notin DOMAIN emitters
               /\ ret'.value = storage'[obj][SignalName]
               /\ emitters'[ret'.value]._cb_list =
                     [j \in 1..Len(sig._cb_m) |-> [func |-> sig._cb_m[j], self |-> obj]]
                        \o [j \in 1..Len(sig._cb_f) |-> [func |-> sig._cb_f[j], self |-> 0]]]_vars

\* C22 witness: the instance holds its second dispatcher, with the key given
\* to variantmethod, and has just been given its second emitter, whose list
\* is the one function the class has bound
C22_Witness ==
    /\ ret.op = "get" /\ ret.called /\ ret.obj = 1
    /\ nvar = 2 /\ HasVariant(1) /\ variants[VariantOf(1)].curr_key = DefaultKey
    /\ nemit = 2 /\ HasSignal(1) /\ ret.value = storage[1][SignalName]
    /\ sig._cb_f = <<"f0">>
    /\ emitters[ret.value]._cb_list = <<Free("f0")>>

====
